---- MODULE Spec2Model ----
(***************************************************************************)
(* Model of booster's source reconciliation loop (package source):         *)
(* Listener.Run / Listener.Poll, Diff and the Hooker fault registry, with  *)
(* the traffic tasks that call Hooker.HandleDialErr concurrently.          *)
(*                                                                         *)
(* A source is identified by its name (core.Source.Name()).  The Store     *)
(* behind the Store interface is the set of active source names.           *)
(***************************************************************************)
EXTENDS Integers, Sequences, FiniteSets, TLC

\* ------------------------------------------------------------------ bounds
MaxLen == 2        \* longest list Provide returns
MaxCycles == 2     \* Poll cycles Run starts before the model stops looping
MaxFaults == 2     \* dial errors reported over a run
NumTasks == 2      \* traffic tasks calling HandleDialErr concurrently

MaxPackets == 2    \* packets main reads from the TUN device

\* ------------------------------------------------------------- value sets
NameOrder == <<"A", "B", "C">>
Names == {NameOrder[i] : i \in DOMAIN NameOrder}
Tasks == 1..NumTasks
Networks == {"tcp"}
Addresses == {"10.0.0.1:80"}
DialErrs == {"refused"}

\* package remote: the fields a request body can carry.
SourceIDs == {"", "eth0"}
Targets == {"", "example.com:443"}
Issuers == {"admin"}
Reasons == {"maintenance"}

\* net/http status codes the policy handlers write.
StatusBadRequest == 400
StatusCreated == 201

\* package main: values of the -gw flag.
Gateways == {"10.12.44.16", "192.168.7.1"}

\* The confidence Poll passes to Provider.Check.
High == "High"

\* The nil *hookErr / nil error.
NilErr == [receivedAt |-> 0, ref |-> "", network |-> "", address |-> "", err |-> ""]

RangeOf(s) == {s[i] : i \in DOMAIN s}
NoDup(s) == \A i, j \in DOMAIN s : i # j => s[i] # s[j]

\* Every list Provide can return (names may repeat).
ProvideLists == UNION {[1..n -> Names] : n \in 0..MaxLen}

VARIABLES
    store,      \* Store: the set of active source names
    hooked,     \* Hooker.hooked: name -> *hookErr (NilErr when absent)
    mu,         \* Hooker's sync.Mutex: 0 free, -1 held by the control task, t held by task t
    ctxDone,    \* the outer context of Run is canceled
    timerFired, \* the time.After(PollInterval) channel of the current select is ready
    pc,         \* position of the control task in Run / Poll
    cur, old, add, remove, acc, idx,   \* locals of Poll
    pollErr,    \* what Poll returned ("" is nil)
    runRet,     \* what Run returned ("" while running)
    deferred,   \* deferred cancel() calls registered by Run and not yet run
    tpc, terr,  \* traffic tasks: position, and the hookErr built by HandleDialErr
    targs,      \* traffic tasks: the arguments of the HandleDialErr call in progress
    now,        \* clock read by time.Now()
    \* history variables
    old0,       \* the active set when the cycle started
    provided,   \* Provide succeeded in the cycle
    passed,     \* names whose admission Check succeeded in the cycle
    quiet,      \* no fault was pending at cycle start nor stored during the cycle
    lastCall,   \* last call the control task made
    prevCall,   \* the call before it
    unread,     \* name -> receivedAt of the last fault stored and not yet read (0: none)
    delivered,  \* receivedAt -> cycles in which HookErr returned that fault
    everPassed, \* names whose Check at High confidence ever succeeded
    accf,       \* the faults that put each element of acc there
    rechecked,  \* results of the re-validation Checks of the cycle
    stale,      \* names whose pending fault was stored before their admission
    dOld, dCur, dOut, dpc,  \* harness applying Diff to arbitrary lists
    \* package remote: the policy handlers
    policies,   \* the policies the SourceStore holds
    pReq,       \* the last request served
    pStatus,    \* the HTTP status written for it
    pAppend,    \* the policy handed to AppendPolicy for it (NoPolicy: no call)
    \* package main
    echo, redirect, gw,   \* the command line flags
    mpc,        \* position of main
    routes,     \* the routes added through RouteCmd and still in the table
    cmds,       \* the route commands run so far
    rret,       \* what RedirectAll returned
    npkt        \* packets read from the TUN device

pollVars == <<cur, old, add, remove, acc, idx>>
taskVars == <<tpc, terr, targs, now>>
histVars == <<old0, provided, passed, quiet, lastCall, prevCall, unread, delivered,
              everPassed, accf, rechecked, stale>>
cycleHist == <<old0, provided, passed, quiet, lastCall, prevCall, unread, delivered,
               everPassed, stale>>
diffVars == <<dOld, dCur, dOut, dpc>>
polVars == <<policies, pReq, pStatus, pAppend>>
routeVars == <<echo, redirect, gw, mpc, routes, cmds, rret, npkt>>
sideVars == <<diffVars, polVars, routeVars>>
vars == <<store, hooked, mu, ctxDone, timerFired, pc, pollVars, pollErr, runRet,
          deferred, taskVars, histVars, sideVars>>

\* ------------------------------------------------------- Store (interface)
StorePut(s, v) == s \cup {v}
StoreDel(s, v) == s \ {v}
GetActive(s) == SelectSeq(NameOrder, LAMBDA n : n \in s)

\* ------------------------------------------------------------------- Diff
\* Diff with the lookup of the second loop made in curm instead of oldm.
DiffWrongMap(o, c) ==
    LET oldm == RangeOf(o)
        curm == RangeOf(c)
    IN  [add    |-> SelectSeq(c, LAMBDA v : v \notin curm),
         remove |-> SelectSeq(o, LAMBDA v : v \notin curm)]

\* oldm / curm of the code are the key sets of the two maps.
Diff(o, c) ==
    LET oldm == RangeOf(o)
        curm == RangeOf(c)
    IN  [add    |-> SelectSeq(c, LAMBDA v : v \notin oldm),
         remove |-> SelectSeq(o, LAMBDA v : v \notin curm)]

\* ----------------------------------------------------------------- Hooker
\* The hookErr HandleDialErr builds: the address field is not set.
NewHookErr(ref, network, address, err, t) ==
    [receivedAt |-> t, ref |-> ref, network |-> network, address |-> "", err |-> err]

\* Add that keeps a fault already stored for the name.
HookerAddKeepFirst(h, e) == IF h[e.ref] # NilErr THEN h ELSE [h EXCEPT ![e.ref] = e]

\* Hooker.Add, between Lock and Unlock.
HookerAdd(h, e) == [h EXCEPT ![e.ref] = e]

\* HookErr that deletes the entry and returns nil.
HookErrLoseResult(h, id) == [err |-> NilErr, hooked |-> [h EXCEPT ![id] = NilErr]]

\* HookErr that returns the entry and leaves it in the map.
HookErrNoDelete(h, id) == [err |-> h[id], hooked |-> h]

\* Hooker.HookErr, between Lock and Unlock: the returned error and the map left.
HookErr(h, id) ==
    IF h[id] # NilErr
    THEN [err |-> h[id], hooked |-> [h EXCEPT ![id] = NilErr]]
    ELSE [err |-> NilErr, hooked |-> h]

\* ctx.Err()
CtxErr(done) == IF done THEN "context canceled" ELSE ""

\* The arguments of a HandleDialErr call; NoArgs while no call is in progress.
Args(ref, network, address, err) ==
    [ref |-> ref, network |-> network, address |-> address, err |-> err]
NoArgs == Args("", "", "", "")

\* package remote: PoliciesInput after decoding, and the policy built from it.
NoReq == [kind |-> "", decoded |-> FALSE, source_id |-> "", target |-> "",
          reason |-> "", issuer |-> ""]
NoPolicy == [kind |-> "", issuer |-> "", source_id |-> "", target |-> "", reason |-> ""]

\* package main: var gw = flag.String("gw", "10.12.44.16", ...)
DefaultGw == "10.12.44.16"

\* RedirectAll has not returned; it returned nil; it returned the error of
\* the command argv.
NotReturned == [done |-> FALSE, err |-> <<>>]
ReturnNil == [done |-> TRUE, err |-> <<>>]
ReturnErr(argv) == [done |-> TRUE, err |-> argv]

NoCall == [op |-> "none", src |-> "", conf |-> "", ok |-> TRUE]
Call(op, src, conf, ok) == [op |-> op, src |-> src, conf |-> conf, ok |-> ok]

\* ------------------------------------------------------------------- Init
\* The Listener NewListener returns, the clock reading t.
ListenerInit(t) ==
    /\ store = {}
    /\ hooked = [n \in Names |-> NilErr]
    /\ mu = 0
    /\ ctxDone = FALSE
    /\ timerFired = FALSE
    /\ pc = "loop"
    /\ cur = <<>> /\ old = <<>> /\ add = <<>> /\ remove = <<>> /\ acc = <<>>
    /\ idx = 1
    /\ pollErr = ""
    /\ runRet = ""
    /\ deferred = 0
    /\ tpc = [k \in Tasks |-> "idle"]
    /\ terr = [k \in Tasks |-> NilErr]
    /\ targs = [k \in Tasks |-> NoArgs]
    /\ now = t
    /\ old0 = {}
    /\ provided = FALSE
    /\ passed = {}
    /\ quiet = TRUE
    /\ lastCall = NoCall
    /\ prevCall = NoCall
    /\ unread = [n \in Names |-> 0]
    /\ delivered = [f \in 1..MaxFaults |-> <<>>]
    /\ everPassed = {}
    /\ accf = <<>>
    /\ rechecked = <<>>
    /\ stale = {}

MainInit == ListenerInit(1)

\* No Diff call of the harness in progress.
DiffIdle == dOld = <<>> /\ dCur = <<>> /\ dOut = Diff(<<>>, <<>>) /\ dpc = "idle"

\* The management API has served no request.
PolicyIdle == policies = {} /\ pReq = NoReq /\ pStatus = 0 /\ pAppend = NoPolicy

\* main has not been started.
RouteIdle ==
    /\ echo = FALSE /\ redirect = FALSE /\ gw = DefaultGw
    /\ mpc = "idle" /\ routes = {} /\ cmds = <<>> /\ rret = NotReturned /\ npkt = 0

Init == MainInit /\ DiffIdle /\ PolicyIdle /\ RouteIdle

\* -------------------------------------------------------------------- Run
\* Top of the for loop: context.WithTimeout and defer cancel().
RunLoopTop ==
    /\ pc = "loop"
    /\ pc' = "provide"
    /\ deferred' = deferred + 1
    /\ old0' = store
    /\ provided' = FALSE
    /\ passed' = {}
    /\ quiet' = (\A n \in Names : hooked[n] = NilErr)
    /\ accf' = <<>>
    /\ rechecked' = <<>>
    /\ lastCall' = NoCall
    /\ prevCall' = NoCall
    /\ pollErr' = ""
    /\ UNCHANGED <<store, hooked, mu, ctxDone, timerFired, pollVars, runRet,
                   taskVars, unread, stale, delivered, everPassed, sideVars>>

\* Run returning the error of Poll instead of logging it.
RunAfterPollReturnErr ==
    /\ pc = "afterpoll"
    /\ IF pollErr # ""
       THEN /\ pc' = "returned"
            /\ runRet' = pollErr
            /\ deferred' = 0
            /\ UNCHANGED timerFired
       ELSE /\ pc' = "select"
            /\ timerFired' = FALSE
            /\ UNCHANGED <<runRet, deferred>>
    /\ cur' = <<>> /\ old' = <<>> /\ add' = <<>> /\ remove' = <<>> /\ acc' = <<>>
    /\ idx' = 1
    /\ accf' = <<>>
    /\ rechecked' = <<>>
    /\ UNCHANGED <<store, hooked, mu, ctxDone, pollErr, taskVars, cycleHist, sideVars>>

\* Poll has returned: a non-nil error is logged, and Run enters the select
\* with a fresh time.After channel.
RunAfterPoll ==
    /\ pc = "afterpoll"
    /\ pc' = "select"
    /\ timerFired' = FALSE
    /\ cur' = <<>> /\ old' = <<>> /\ add' = <<>> /\ remove' = <<>> /\ acc' = <<>>
    /\ idx' = 1
    /\ accf' = <<>>
    /\ rechecked' = <<>>
    /\ UNCHANGED <<store, hooked, mu, ctxDone, pollErr, runRet, deferred,
                   taskVars, cycleHist, sideVars>>

\* The ctx.Done() case leaving the select with break instead of return.
RunSelectDoneBreak ==
    /\ pc = "select"
    /\ ctxDone
    /\ deferred < MaxCycles
    /\ pc' = "loop"
    /\ UNCHANGED <<store, hooked, mu, ctxDone, timerFired, pollVars, pollErr, runRet,
                   deferred, taskVars, histVars, sideVars>>

\* case <-ctx.Done(): return ctx.Err(); the deferred cancels run.
RunSelectDone ==
    /\ pc = "select"
    /\ ctxDone
    /\ pc' = "returned"
    /\ runRet' = CtxErr(ctxDone)
    /\ deferred' = 0
    /\ UNCHANGED <<store, hooked, mu, ctxDone, timerFired, pollVars, pollErr,
                   taskVars, histVars, sideVars>>

\* case <-time.After(PollInterval): next iteration.
RunSelectTimer ==
    /\ pc = "select"
    /\ timerFired
    /\ deferred < MaxCycles
    /\ pc' = "loop"
    /\ UNCHANGED <<store, hooked, mu, ctxDone, timerFired, pollVars, pollErr, runRet,
                   deferred, taskVars, histVars, sideVars>>

\* PollInterval elapses while Run is in the select.
TimerFire ==
    /\ pc = "select"
    /\ ~timerFired
    /\ timerFired' = TRUE
    /\ UNCHANGED <<store, hooked, mu, ctxDone, pc, pollVars, pollErr, runRet,
                   deferred, taskVars, histVars, sideVars>>

\* The caller of Run cancels the outer context.
Cancel ==
    /\ ~ctxDone
    /\ ctxDone' = TRUE
    /\ UNCHANGED <<store, hooked, mu, timerFired, pc, pollVars, pollErr, runRet,
                   deferred, taskVars, histVars, sideVars>>

\* ------------------------------------------------------------------- Poll
\* What no step of Poll changes.
pollFrame == <<ctxDone, timerFired, runRet, deferred, taskVars, old0, quiet, sideVars>>

\* Poll going on with an empty list when Provide fails.
PollProvideIgnoreErr ==
    /\ pc = "provide"
    /\ \/ /\ cur' = <<>>
          /\ pc' = "getactive"
          /\ lastCall' = Call("Provide", "", "", FALSE)
          /\ prevCall' = lastCall
          /\ UNCHANGED <<pollErr, provided>>
       \/ \E l \in ProvideLists :
          /\ cur' = l
          /\ provided' = TRUE
          /\ pc' = "getactive"
          /\ lastCall' = Call("Provide", "", "", TRUE)
          /\ prevCall' = lastCall
          /\ UNCHANGED pollErr
    /\ UNCHANGED <<store, hooked, mu, old, add, remove, acc, idx, passed, unread, stale,
                   delivered, everPassed, accf, rechecked, pollFrame>>

\* cur, err := l.Provide(ctx); if err != nil { return err }
PollProvide ==
    /\ pc = "provide"
    /\ \/ /\ pollErr' = "provide failed"
          /\ pc' = "afterpoll"
          /\ lastCall' = Call("Provide", "", "", FALSE)
          /\ prevCall' = lastCall
          /\ UNCHANGED <<cur, provided>>
       \/ \E l \in ProvideLists :
          /\ cur' = l
          /\ provided' = TRUE
          /\ pc' = "getactive"
          /\ lastCall' = Call("Provide", "", "", TRUE)
          /\ prevCall' = lastCall
          /\ UNCHANGED pollErr
    /\ UNCHANGED <<store, hooked, mu, old, add, remove, acc, idx, passed, unread, stale,
                   delivered, everPassed, accf, rechecked, pollFrame>>

\* old := l.s.GetActive(); add, remove := Diff(old, cur)
PollGetActive ==
    /\ pc = "getactive"
    /\ old' = GetActive(store)
    /\ add' = Diff(GetActive(store), cur).add
    /\ remove' = Diff(GetActive(store), cur).remove
    /\ idx' = 1
    /\ pc' = "add"
    /\ lastCall' = Call("GetActive", "", "", TRUE)
    /\ prevCall' = lastCall
    /\ UNCHANGED <<store, hooked, mu, cur, acc, pollErr, provided, passed, unread, stale,
                   delivered, everPassed, accf, rechecked, pollFrame>>

\* The admission loop going on to Put whatever Check returned.
PollAddCheckIgnoreErr ==
    /\ pc = "add"
    /\ IF idx > Len(add)
       THEN /\ pc' = "remove"
            /\ idx' = 1
            /\ UNCHANGED <<lastCall, prevCall, passed, everPassed>>
       ELSE \E ok \in BOOLEAN :
            /\ lastCall' = Call("Check", add[idx], High, ok)
            /\ prevCall' = lastCall
            /\ pc' = "put"
            /\ passed' = IF ok THEN passed \cup {add[idx]} ELSE passed
            /\ everPassed' = IF ok THEN everPassed \cup {add[idx]} ELSE everPassed
            /\ UNCHANGED idx
    /\ UNCHANGED <<store, hooked, mu, cur, old, add, remove, acc, pollErr, provided,
                   unread, stale, delivered, accf, rechecked, pollFrame>>

\* for _, v := range add: l.Check(ctx, v, High); on error continue.
PollAddCheck ==
    /\ pc = "add"
    /\ IF idx > Len(add)
       THEN /\ pc' = "remove"
            /\ idx' = 1
            /\ UNCHANGED <<lastCall, prevCall, passed, everPassed>>
       ELSE \E ok \in BOOLEAN :
            /\ lastCall' = Call("Check", add[idx], High, ok)
            /\ prevCall' = lastCall
            /\ IF ok
               THEN /\ pc' = "put"
                    /\ passed' = passed \cup {add[idx]}
                    /\ everPassed' = everPassed \cup {add[idx]}
                    /\ UNCHANGED idx
               ELSE /\ idx' = idx + 1
                    /\ UNCHANGED <<pc, passed, everPassed>>
    /\ UNCHANGED <<store, hooked, mu, cur, old, add, remove, acc, pollErr, provided,
                   unread, stale, delivered, accf, rechecked, pollFrame>>

\* Put of the whole add list instead of the checked source: l.s.Put(add...)
PollAddPutAll ==
    /\ pc = "put"
    /\ store' = store \cup RangeOf(add)
    /\ idx' = idx + 1
    /\ pc' = "add"
    /\ lastCall' = Call("Put", add[idx], "", TRUE)
    /\ prevCall' = lastCall
    /\ stale' = IF hooked[add[idx]] # NilErr THEN stale \cup {add[idx]} ELSE stale
    /\ UNCHANGED <<hooked, mu, cur, old, add, remove, acc, pollErr, provided, passed,
                   unread, delivered, everPassed, accf, rechecked, pollFrame>>

\* l.s.Put(v)
PollAddPut ==
    /\ pc = "put"
    /\ store' = StorePut(store, add[idx])
    /\ idx' = idx + 1
    /\ pc' = "add"
    /\ lastCall' = Call("Put", add[idx], "", TRUE)
    /\ prevCall' = lastCall
    /\ stale' = IF hooked[add[idx]] # NilErr THEN stale \cup {add[idx]} ELSE stale
    /\ UNCHANGED <<hooked, mu, cur, old, add, remove, acc, pollErr, provided, passed,
                   unread, delivered, everPassed, accf, rechecked, pollFrame>>

\* for _, v := range remove: l.s.Del(v)
PollRemoveDel ==
    /\ pc = "remove"
    /\ IF idx > Len(remove)
       THEN /\ pc' = "getactive2"
            /\ idx' = 1
            /\ UNCHANGED <<store, lastCall, prevCall>>
       ELSE /\ store' = StoreDel(store, remove[idx])
            /\ pc' = "remove_lock"
            /\ lastCall' = Call("Del", remove[idx], "", TRUE)
            /\ prevCall' = lastCall
            /\ UNCHANGED idx
    /\ UNCHANGED <<hooked, mu, cur, old, add, remove, acc, pollErr, provided, passed,
                   unread, stale, delivered, everPassed, accf, rechecked, pollFrame>>

\* _ = l.h.HookErr(v.Name()): h.Lock()
PollRemoveLock ==
    /\ pc = "remove_lock"
    /\ mu = 0
    /\ mu' = -1
    /\ pc' = "remove_hook"
    /\ UNCHANGED <<store, hooked, pollVars, pollErr, histVars, pollFrame>>

\* _ = l.h.HookErr(v.Name()): the body and the deferred h.Unlock()
PollRemoveHook ==
    /\ pc = "remove_hook"
    /\ LET r == HookErr(hooked, remove[idx]) IN
       /\ hooked' = r.hooked
       /\ lastCall' = Call("HookErr", remove[idx], "", r.err = NilErr)
       /\ prevCall' = lastCall
       /\ delivered' = IF r.err = NilErr THEN delivered
                       ELSE [delivered EXCEPT ![r.err.receivedAt] = Append(@, deferred)]
    /\ unread' = [unread EXCEPT ![remove[idx]] = 0]
    /\ stale' = stale \ {remove[idx]}
    /\ mu' = 0
    /\ idx' = idx + 1
    /\ pc' = "remove"
    /\ UNCHANGED <<store, cur, old, add, remove, acc, pollErr, provided, passed,
                   everPassed, accf, rechecked, pollFrame>>

\* old = l.s.GetActive(); acc := make([]core.Source, 0, len(old))
PollGetActive2 ==
    /\ pc = "getactive2"
    /\ old' = GetActive(store)
    /\ acc' = <<>>
    /\ idx' = 1
    /\ pc' = "scan"
    /\ lastCall' = Call("GetActive", "", "", TRUE)
    /\ prevCall' = lastCall
    /\ UNCHANGED <<store, hooked, mu, cur, add, remove, pollErr, provided, passed,
                   unread, stale, delivered, everPassed, accf, rechecked, pollFrame>>

\* for _, src := range old: l.h.HookErr(src.Name()): h.Lock()
PollScanLock ==
    /\ pc = "scan"
    /\ IF idx > Len(old)
       THEN /\ pc' = "recheck"
            /\ idx' = 1
            /\ UNCHANGED mu
       ELSE /\ mu = 0
            /\ mu' = -1
            /\ pc' = "scan_hook"
            /\ UNCHANGED idx
    /\ UNCHANGED <<store, hooked, cur, old, add, remove, acc, pollErr, histVars,
                   pollFrame>>

\* The scan returning from HookErr without the deferred h.Unlock().
PollScanHookNoUnlock ==
    /\ pc = "scan_hook"
    /\ LET r == HookErr(hooked, old[idx]) IN
       /\ hooked' = r.hooked
       /\ lastCall' = Call("HookErr", old[idx], "", r.err = NilErr)
       /\ prevCall' = lastCall
       /\ delivered' = IF r.err = NilErr THEN delivered
                       ELSE [delivered EXCEPT ![r.err.receivedAt] = Append(@, deferred)]
       /\ acc' = IF r.err # NilErr THEN Append(acc, old[idx]) ELSE acc
       /\ accf' = IF r.err # NilErr THEN Append(accf, r.err) ELSE accf
    /\ unread' = [unread EXCEPT ![old[idx]] = 0]
    /\ stale' = stale \ {old[idx]}
    /\ UNCHANGED mu
    /\ idx' = idx + 1
    /\ pc' = "scan"
    /\ UNCHANGED <<store, cur, old, add, remove, pollErr, provided, passed,
                   everPassed, rechecked, pollFrame>>

\* The scan appending every active source to acc, fault or not.
PollScanHookAll ==
    /\ pc = "scan_hook"
    /\ LET r == HookErr(hooked, old[idx]) IN
       /\ hooked' = r.hooked
       /\ lastCall' = Call("HookErr", old[idx], "", r.err = NilErr)
       /\ prevCall' = lastCall
       /\ delivered' = IF r.err = NilErr THEN delivered
                       ELSE [delivered EXCEPT ![r.err.receivedAt] = Append(@, deferred)]
       /\ acc' = Append(acc, old[idx])
       /\ accf' = IF r.err # NilErr THEN Append(accf, r.err) ELSE accf
    /\ unread' = [unread EXCEPT ![old[idx]] = 0]
    /\ stale' = stale \ {old[idx]}
    /\ mu' = 0
    /\ idx' = idx + 1
    /\ pc' = "scan"
    /\ UNCHANGED <<store, cur, old, add, remove, pollErr, provided, passed,
                   everPassed, rechecked, pollFrame>>

\* err = l.h.HookErr(src.Name()); if err != nil { acc = append(acc, src) }
PollScanHook ==
    /\ pc = "scan_hook"
    /\ LET r == HookErr(hooked, old[idx]) IN
       /\ hooked' = r.hooked
       /\ lastCall' = Call("HookErr", old[idx], "", r.err = NilErr)
       /\ prevCall' = lastCall
       /\ delivered' = IF r.err = NilErr THEN delivered
                       ELSE [delivered EXCEPT ![r.err.receivedAt] = Append(@, deferred)]
       /\ acc' = IF r.err # NilErr THEN Append(acc, old[idx]) ELSE acc
       /\ accf' = IF r.err # NilErr THEN Append(accf, r.err) ELSE accf
    /\ unread' = [unread EXCEPT ![old[idx]] = 0]
    /\ stale' = stale \ {old[idx]}
    /\ mu' = 0
    /\ idx' = idx + 1
    /\ pc' = "scan"
    /\ UNCHANGED <<store, cur, old, add, remove, pollErr, provided, passed,
                   everPassed, rechecked, pollFrame>>

\* The re-validation loop with its test inverted: err == nil deletes.
PollRecheckInverted ==
    /\ pc = "recheck"
    /\ IF idx > Len(acc)
       THEN /\ pollErr' = ""
            /\ pc' = "afterpoll"
            /\ UNCHANGED <<idx, lastCall, prevCall, rechecked, everPassed>>
       ELSE \E ok \in BOOLEAN :
            /\ lastCall' = Call("Check", acc[idx], High, ok)
            /\ prevCall' = lastCall
            /\ rechecked' = Append(rechecked, [src |-> acc[idx], ok |-> ok])
            /\ everPassed' = IF ok THEN everPassed \cup {acc[idx]} ELSE everPassed
            /\ IF ~ok
               THEN /\ idx' = idx + 1
                    /\ UNCHANGED pc
               ELSE /\ pc' = "recheck_del"
                    /\ UNCHANGED idx
            /\ UNCHANGED pollErr
    /\ UNCHANGED <<store, hooked, mu, cur, old, add, remove, acc, provided, passed,
                   unread, stale, delivered, accf, pollFrame>>

\* for _, v := range acc: l.Check(ctx, v, High); return nil after the loop.
PollRecheck ==
    /\ pc = "recheck"
    /\ IF idx > Len(acc)
       THEN /\ pollErr' = ""
            /\ pc' = "afterpoll"
            /\ UNCHANGED <<idx, lastCall, prevCall, rechecked, everPassed>>
       ELSE \E ok \in BOOLEAN :
            /\ lastCall' = Call("Check", acc[idx], High, ok)
            /\ prevCall' = lastCall
            /\ rechecked' = Append(rechecked, [src |-> acc[idx], ok |-> ok])
            /\ everPassed' = IF ok THEN everPassed \cup {acc[idx]} ELSE everPassed
            /\ IF ok
               THEN /\ idx' = idx + 1
                    /\ UNCHANGED pc
               ELSE /\ pc' = "recheck_del"
                    /\ UNCHANGED idx
            /\ UNCHANGED pollErr
    /\ UNCHANGED <<store, hooked, mu, cur, old, add, remove, acc, provided, passed,
                   unread, stale, delivered, accf, pollFrame>>

\* l.s.Del(v) after a failed re-validation
PollRecheckDel ==
    /\ pc = "recheck_del"
    /\ store' = StoreDel(store, acc[idx])
    /\ idx' = idx + 1
    /\ pc' = "recheck"
    /\ lastCall' = Call("Del", acc[idx], "", TRUE)
    /\ prevCall' = lastCall
    /\ UNCHANGED <<hooked, mu, cur, old, add, remove, acc, pollErr, provided, passed,
                   unread, stale, delivered, everPassed, accf, rechecked, pollFrame>>

\* ---------------------------------------------------------- traffic tasks
\* HandleDialErr up to the call of h.Add: the hookErr is built with time.Now().
HandleDialErr(t) ==
    /\ tpc[t] = "idle"
    /\ now <= MaxFaults
    /\ \E ref \in Names, network \in Networks, address \in Addresses, err \in DialErrs :
       /\ targs' = [targs EXCEPT ![t] = Args(ref, network, address, err)]
       /\ terr' = [terr EXCEPT ![t] = NewHookErr(ref, network, address, err, now)]
    /\ now' = now + 1
    /\ tpc' = [tpc EXCEPT ![t] = "add"]
    /\ UNCHANGED <<store, hooked, mu, ctxDone, timerFired, pc, pollVars, pollErr,
                   runRet, deferred, histVars, sideVars>>

\* Hooker.Add: h.Lock()
AddLock(t) ==
    /\ tpc[t] = "add"
    /\ mu = 0
    /\ mu' = t
    /\ tpc' = [tpc EXCEPT ![t] = "locked"]
    /\ UNCHANGED <<store, hooked, ctxDone, timerFired, pc, pollVars, pollErr,
                   runRet, deferred, terr, targs, now, histVars, sideVars>>

\* Hooker.Add: h.hooked[err.ref] = err; h.Unlock()
AddStore(t) ==
    /\ tpc[t] = "locked"
    /\ hooked' = HookerAdd(hooked, terr[t])
    /\ mu' = 0
    /\ tpc' = [tpc EXCEPT ![t] = "idle"]
    /\ terr' = [terr EXCEPT ![t] = NilErr]
    /\ targs' = [targs EXCEPT ![t] = NoArgs]
    /\ unread' = [unread EXCEPT ![terr[t].ref] = terr[t].receivedAt]
    /\ stale' = stale \ {terr[t].ref}
    /\ quiet' = FALSE
    /\ UNCHANGED <<store, ctxDone, timerFired, pc, pollVars, pollErr, runRet,
                   deferred, now, old0, provided, passed, lastCall, prevCall, delivered,
                   everPassed, accf, rechecked, sideVars>>

\* ------------------------------------------------------------------- Next
Next ==
    \/ RunLoopTop
    \/ PollProvide
    \/ PollGetActive
    \/ PollAddCheck
    \/ PollAddPut
    \/ PollRemoveDel
    \/ PollRemoveLock
    \/ PollRemoveHook
    \/ PollGetActive2
    \/ PollScanLock
    \/ PollScanHook
    \/ PollRecheck
    \/ PollRecheckDel
    \/ RunAfterPoll
    \/ RunSelectDone
    \/ RunSelectTimer
    \/ TimerFire
    \/ Cancel
    \/ \E t \in Tasks : HandleDialErr(t)
    \/ \E t \in Tasks : AddLock(t)
    \/ \E t \in Tasks : AddStore(t)

Spec == Init /\ [][Next]_vars

\* The steps of the control task (Run and the Poll it calls).
ControlNext ==
    \/ RunLoopTop
    \/ PollProvide
    \/ PollGetActive
    \/ PollAddCheck
    \/ PollAddPut
    \/ PollRemoveDel
    \/ PollRemoveLock
    \/ PollRemoveHook
    \/ PollGetActive2
    \/ PollScanLock
    \/ PollScanHook
    \/ PollRecheck
    \/ PollRecheckDel
    \/ RunAfterPoll
    \/ RunSelectDone
    \/ RunSelectTimer

\* The control task keeps running and every Provider call returns; select
\* takes a case that is ready again and again; sync.Mutex hands the lock to a
\* waiter, and a task that holds it goes on to Unlock.
Fairness ==
    /\ WF_vars(ControlNext)
    /\ SF_vars(RunSelectDone)
    /\ SF_vars(PollRemoveLock)
    /\ SF_vars(PollScanLock)
    /\ \A t \in Tasks : SF_vars(AddLock(t)) /\ WF_vars(AddStore(t))

\* Run observed from a moment when the clock reads MaxFaults.
FairInit == ListenerInit(MaxFaults) /\ DiffIdle /\ PolicyIdle /\ RouteIdle

FairSpec == FairInit /\ [][Next]_vars /\ Fairness

\* ------------------------------------------------- Diff on arbitrary lists
\* The lists Diff is applied to: any order, names may repeat.
DiffLists == UNION {[1..n -> Names] : n \in 0..MaxLen}

mainVars == <<store, hooked, mu, ctxDone, timerFired, pc, pollVars, pollErr, runRet,
              deferred, taskVars, histVars>>

DiffInit ==
    /\ MainInit
    /\ dOld \in DiffLists
    /\ dCur \in DiffLists
    /\ dOut = [add |-> <<>>, remove |-> <<>>]
    /\ dpc = "call"
    /\ PolicyIdle
    /\ RouteIdle

\* add, remove := Diff(old, cur)
DiffCall ==
    /\ dpc = "call"
    /\ dOut' = Diff(dOld, dCur)
    /\ dpc' = "done"
    /\ UNCHANGED <<dOld, dCur, mainVars, polVars, routeVars>>

\* The next call, on other lists.
DiffAgain ==
    /\ dpc = "done"
    /\ dOld' \in DiffLists
    /\ dCur' \in DiffLists
    /\ dOut' = [add |-> <<>>, remove |-> <<>>]
    /\ dpc' = "call"
    /\ UNCHANGED <<mainVars, polVars, routeVars>>

DiffNext == DiffCall \/ DiffAgain

DiffSpec == DiffInit /\ [][DiffNext]_vars

\* ------------------------------------------- package remote: policy handlers
\* store.NewBlockPolicy, NewStickyPolicy, NewReservedPolicy, NewAvoidPolicy
NewBlockPolicy(issuer, sourceID) ==
    [kind |-> "block", issuer |-> issuer, source_id |-> sourceID, target |-> "",
     reason |-> ""]
NewStickyPolicy(issuer) ==
    [kind |-> "sticky", issuer |-> issuer, source_id |-> "", target |-> "", reason |-> ""]
NewReservedPolicy(issuer, sourceID, target) ==
    [kind |-> "reserved", issuer |-> issuer, source_id |-> sourceID, target |-> target,
     reason |-> ""]
NewAvoidPolicy(issuer, sourceID, target) ==
    [kind |-> "avoid", issuer |-> issuer, source_id |-> sourceID, target |-> target,
     reason |-> ""]

\* SourceStore.AppendPolicy: validates and stores; the error and the set left.
AppendPolicy(ps, p) ==
    IF \/ p.kind \in {"block", "reserved", "avoid"} /\ p.source_id = ""
       \/ p.kind \in {"reserved", "avoid"} /\ p.target = ""
    THEN [err |-> "validation error", policies |-> ps]
    ELSE [err |-> "", policies |-> ps \cup {p}]

\* The request as the handler sees it: the decoded PoliciesInput, or nothing
\* but the kind when the body does not decode.
Req(kind, decoded, in) ==
    IF decoded
    THEN [kind |-> kind, decoded |-> TRUE, source_id |-> in.source_id,
          target |-> in.target, reason |-> in.reason, issuer |-> in.issuer]
    ELSE [NoReq EXCEPT !.kind = kind]

PoliciesInput ==
    [source_id : SourceIDs, target : Targets, reason : Reasons, issuer : Issuers]

\* writeError(w, err, http.StatusBadRequest); return
PolicyReject ==
    /\ pStatus' = StatusBadRequest
    /\ pAppend' = NoPolicy
    /\ UNCHANGED policies

\* handlePolicy(s, p, w, r)
handlePolicy(p) ==
    LET r == AppendPolicy(policies, p) IN
    /\ pAppend' = p
    /\ policies' = r.policies
    /\ pStatus' = IF r.err # "" THEN StatusBadRequest ELSE StatusCreated

\* The reserve handler without its test of payload.Target.
PoliciesReserveHandlerNoTarget ==
    \E decoded \in BOOLEAN, in \in PoliciesInput :
    /\ pReq' = Req("reserved", decoded, in)
    /\ IF ~decoded THEN PolicyReject
       ELSE IF in.source_id = "" THEN PolicyReject
       ELSE handlePolicy([NewReservedPolicy(in.issuer, in.source_id, in.target)
                             EXCEPT !.reason = in.reason])
    /\ UNCHANGED <<mainVars, diffVars, routeVars>>

PoliciesBlockHandler ==
    \E decoded \in BOOLEAN, in \in PoliciesInput :
    /\ pReq' = Req("block", decoded, in)
    /\ IF ~decoded THEN PolicyReject
       ELSE IF in.source_id = "" THEN PolicyReject
       ELSE handlePolicy([NewBlockPolicy(in.issuer, in.source_id)
                             EXCEPT !.reason = in.reason])
    /\ UNCHANGED <<mainVars, diffVars, routeVars>>

PoliciesStickyHandler ==
    \E decoded \in BOOLEAN, in \in PoliciesInput :
    /\ pReq' = Req("sticky", decoded, in)
    /\ IF ~decoded THEN PolicyReject
       ELSE handlePolicy(NewStickyPolicy(in.issuer))
    /\ UNCHANGED <<mainVars, diffVars, routeVars>>

PoliciesReserveHandler ==
    \E decoded \in BOOLEAN, in \in PoliciesInput :
    /\ pReq' = Req("reserved", decoded, in)
    /\ IF ~decoded THEN PolicyReject
       ELSE IF in.source_id = "" THEN PolicyReject
       ELSE IF in.target = "" THEN PolicyReject
       ELSE handlePolicy([NewReservedPolicy(in.issuer, in.source_id, in.target)
                             EXCEPT !.reason = in.reason])
    /\ UNCHANGED <<mainVars, diffVars, routeVars>>

PoliciesAvoidHandler ==
    \E decoded \in BOOLEAN, in \in PoliciesInput :
    /\ pReq' = Req("avoid", decoded, in)
    /\ IF ~decoded THEN PolicyReject
       ELSE IF in.source_id = "" THEN PolicyReject
       ELSE IF in.target = "" THEN PolicyReject
       ELSE handlePolicy([NewAvoidPolicy(in.issuer, in.source_id, in.target)
                             EXCEPT !.reason = in.reason])
    /\ UNCHANGED <<mainVars, diffVars, routeVars>>

PolicyInit == MainInit /\ DiffIdle /\ PolicyIdle /\ RouteIdle

PolicyNext ==
    \/ PoliciesBlockHandler
    \/ PoliciesStickyHandler
    \/ PoliciesReserveHandler
    \/ PoliciesAvoidHandler

PolicySpec == PolicyInit /\ [][PolicyNext]_vars

\* ------------------------------------------------------------ package main
\* RouteCmd.Add, RouteCmd.Del: the command lines.
RouteAdd(dst, g) == <<"route", "-n", "add", dst, g>>
RouteDel(dst, g) == <<"route", "-n", "del", dst, g>>

\* The two halves of the address space RedirectAll routes.
net1 == "0/1"
net2 == "128.0/1"

\* exec.Cmd.Run of argv, with its outcome, appended to the commands run.
Ran(argv, ok) == Append(cmds, [argv |-> argv, ok |-> ok])

mainFrame == <<echo, redirect, gw, mainVars, diffVars, polVars>>

\* iff, err := TUN(); if err != nil { panic(err) }
MainTUN ==
    /\ mpc = "tun"
    /\ \E ok \in BOOLEAN : mpc' = IF ok THEN "ifup" ELSE "panic"
    /\ UNCHANGED <<routes, cmds, rret, npkt, mainFrame>>

\* ifconfig.Up(iff.Name(), *gw, *gw).Run(); then RedirectAll if *redirect.
MainIfconfigUp ==
    /\ mpc = "ifup"
    /\ \E ok \in BOOLEAN :
       mpc' = IF ~ok THEN "panic" ELSE IF redirect THEN "add1" ELSE "read"
    /\ UNCHANGED <<routes, cmds, rret, npkt, mainFrame>>

\* if err := c.Add(net1, gw).Run(); err != nil { return err }
RedirectAdd1 ==
    /\ mpc = "add1"
    /\ \E ok \in BOOLEAN :
       /\ cmds' = Ran(RouteAdd(net1, gw), ok)
       /\ IF ok
          THEN /\ routes' = routes \cup {net1}
               /\ mpc' = "add2"
               /\ UNCHANGED rret
          ELSE /\ rret' = ReturnErr(RouteAdd(net1, gw))
               /\ mpc' = "redirected"
               /\ UNCHANGED routes
    /\ UNCHANGED <<npkt, mainFrame>>

\* The second add returning its error without the rollback.
RedirectAdd2NoRollback ==
    /\ mpc = "add2"
    /\ \E ok \in BOOLEAN :
       /\ cmds' = Ran(RouteAdd(net2, gw), ok)
       /\ mpc' = "redirected"
       /\ IF ok
          THEN /\ routes' = routes \cup {net2}
               /\ rret' = ReturnNil
          ELSE /\ rret' = ReturnErr(RouteAdd(net2, gw))
               /\ UNCHANGED routes
    /\ UNCHANGED <<npkt, mainFrame>>

\* if err := c.Add(net2, gw).Run(); err != nil { rollback(); return err }
\* return nil
RedirectAdd2 ==
    /\ mpc = "add2"
    /\ \E ok \in BOOLEAN :
       /\ cmds' = Ran(RouteAdd(net2, gw), ok)
       /\ IF ok
          THEN /\ routes' = routes \cup {net2}
               /\ rret' = ReturnNil
               /\ mpc' = "redirected"
          ELSE /\ mpc' = "rollback"
               /\ UNCHANGED <<routes, rret>>
    /\ UNCHANGED <<npkt, mainFrame>>

\* rollback(): c.Del(net1, gw).Run(), its error dropped; return err
RedirectRollback ==
    /\ mpc = "rollback"
    /\ \E ok \in BOOLEAN :
       /\ cmds' = Ran(RouteDel(net1, gw), ok)
       /\ routes' = IF ok THEN routes \ {net1} ELSE routes
    /\ rret' = ReturnErr(RouteAdd(net2, gw))
    /\ mpc' = "redirected"
    /\ UNCHANGED <<npkt, mainFrame>>

\* if err := route.RedirectAll(*gw); err != nil { panic(err) }
MainRedirected ==
    /\ mpc = "redirected"
    /\ mpc' = IF rret = ReturnNil THEN "read" ELSE "panic"
    /\ UNCHANGED <<routes, cmds, rret, npkt, mainFrame>>

\* n, err := iff.Read(packet); log.Fatal on error; continue unless *echo
MainRead ==
    /\ mpc = "read"
    /\ npkt < MaxPackets
    /\ \E ok \in BOOLEAN :
       IF ok
       THEN /\ npkt' = npkt + 1
            /\ mpc' = IF echo THEN "write" ELSE "read"
       ELSE /\ mpc' = "fatal"
            /\ UNCHANGED npkt
    /\ UNCHANGED <<routes, cmds, rret, mainFrame>>

\* n, err = iff.Write(packet[:n]); log.Fatal on error
MainWrite ==
    /\ mpc = "write"
    /\ \E ok \in BOOLEAN : mpc' = IF ok THEN "read" ELSE "fatal"
    /\ UNCHANGED <<routes, cmds, rret, npkt, mainFrame>>

\* flag.Parse(): any value of the three flags.
RouteInit ==
    /\ MainInit /\ DiffIdle /\ PolicyIdle
    /\ echo \in BOOLEAN /\ redirect \in BOOLEAN /\ gw \in Gateways
    /\ mpc = "tun" /\ routes = {} /\ cmds = <<>> /\ rret = NotReturned /\ npkt = 0

RouteNext ==
    \/ MainTUN
    \/ MainIfconfigUp
    \/ RedirectAdd1
    \/ RedirectAdd2
    \/ RedirectRollback
    \/ MainRedirected
    \/ MainRead
    \/ MainWrite

RouteSpec == RouteInit /\ [][RouteNext]_vars

\* ============================================================== properties
\* Poll has returned nil: the cycle is complete and its locals still readable.
CycleDone == pc = "afterpoll" /\ provided

\* The control task is completing a HookErr call, and the name it is called on.
HookStep == pc \in {"remove_hook", "scan_hook"} /\ pc' # pc
HookId == IF pc = "remove_hook" THEN remove[idx] ELSE old[idx]

\* A traffic task is completing Hooker.Add.
AddStep(t) == tpc[t] = "locked" /\ tpc'[t] = "idle"

\* C1: after a Poll cycle in which Provide returned a list cur of distinct
\* names and no fault was pending or stored, the active set is the sources of
\* the old active set named in cur, plus the sources of cur not in the old
\* active set whose Check at High confidence succeeded.
C1_PollReconciles ==
    (CycleDone /\ NoDup(cur) /\ quiet) =>
        store = (old0 \cap RangeOf(cur))
                 \cup {n \in RangeOf(cur) \ old0 : n \in passed}

\* A cycle that removed a source, admitted one and rejected one.
C1_Witness ==
    /\ CycleDone /\ NoDup(cur) /\ quiet
    /\ old0 \ RangeOf(cur) # {}
    /\ \E n \in RangeOf(cur) \ old0 : n \in passed /\ n \in store
    /\ \E n \in RangeOf(cur) \ old0 : n \notin passed /\ n \notin store

\* C2: a source is Put only right after its Check at High confidence returned
\* nil in the same cycle; no source whose Checks all failed is ever active; and
\* a failing Check does not make Poll return an error.
C2_AdmitOnlyChecked ==
    /\ store \subseteq everPassed
    /\ lastCall.op = "Put" => prevCall = Call("Check", lastCall.src, High, TRUE)
    /\ pc = "put" => lastCall = Call("Check", add[idx], High, TRUE)
    /\ CycleDone => pollErr = ""

\* The second cycle ends with nil after admitting one candidate and rejecting
\* another, which is not active.
C2_Witness ==
    /\ CycleDone /\ deferred = 2 /\ NoDup(cur) /\ pollErr = ""
    /\ \E n \in RangeOf(cur) \ old0 : n \in passed /\ n \in store
    /\ \E n \in RangeOf(cur) \ old0 : n \notin everPassed /\ n \notin store

\* C3: when a Poll cycle whose Provide succeeded returns, no source that was
\* active at its start and is absent from the Provide result is active, and
\* the registry holds no fault for its name.
C3_RemovedLeavesNoFault ==
    [][(pc # "afterpoll" /\ pc' = "afterpoll" /\ provided') =>
        \A n \in old0 \ RangeOf(cur) : n \notin store' /\ hooked'[n] = NilErr]_vars

\* C4: each source whose fault was consumed by the scan is re-validated on
\* account of a fault returned in this cycle and in no earlier one; at the end
\* of the cycle it is out of the Store if its Check failed and still in it if
\* its Check succeeded.
C4_RevalidationDecides ==
    /\ Len(accf) = Len(acc)
    /\ \A i \in DOMAIN acc :
          /\ accf[i].ref = acc[i]
          /\ delivered[accf[i].receivedAt] = <<deferred>>
    /\ Len(rechecked) <= Len(acc)
    /\ \A i \in DOMAIN rechecked : rechecked[i].src = acc[i]
    /\ CycleDone =>
          /\ Len(rechecked) = Len(acc)
          /\ \A i \in DOMAIN rechecked :
                rechecked[i].ok <=> rechecked[i].src \in store

\* A cycle in which one suspect source passed re-validation and one failed.
C4_Witness ==
    /\ CycleDone
    /\ \E i, j \in DOMAIN rechecked : rechecked[i].ok /\ ~rechecked[j].ok

\* C5: HookErr(n) returns the fault stored for n since the last HookErr(n) and
\* deletes it; with no such fault it returns nil and leaves the registry as is.
C5_EdgeTriggeredRead ==
    [][HookStep =>
        IF unread[HookId] = 0
        THEN /\ lastCall'.ok
             /\ delivered' = delivered
             /\ hooked' = hooked
        ELSE /\ ~lastCall'.ok
             /\ delivered' = [delivered EXCEPT ![unread[HookId]] = Append(@, deferred)]
             /\ hooked' = [hooked EXCEPT ![HookId] = NilErr]]_vars

\* In the second cycle HookErr returns nil for the only source ever admitted,
\* whose fault the scan of the first cycle returned.
C5_Witness ==
    /\ deferred = 2 /\ pc = "scan"
    /\ delivered[1] = <<1>>
    /\ \E n \in Names :
          /\ everPassed = {n}
          /\ lastCall = Call("HookErr", n, "", TRUE)

\* C6: the registry holds for each name the fault stored last for it, and
\* storing a fault for one name changes the entry of no other name.
C6_LastWriteWins ==
    /\ [](\A n \in Names :
            IF unread[n] = 0 THEN hooked[n] = NilErr
            ELSE hooked[n].receivedAt = unread[n] /\ hooked[n].ref = n)
    /\ [][\A t \in Tasks : AddStep(t) =>
            /\ hooked'[terr[t].ref] = terr[t]
            /\ \A m \in Names \ {terr[t].ref} : hooked'[m] = hooked[m]]_vars

\* Both faults were stored for the same name, none was read, and the later
\* store is the one retained.
C6_Witness ==
    /\ now > MaxFaults
    /\ \A t \in Tasks : tpc[t] = "idle"
    /\ \A f \in 1..MaxFaults : delivered[f] = <<>>
    /\ Cardinality({n \in Names : hooked[n] # NilErr}) = 1
    /\ \A n \in Names : unread[n] # 0 => hooked[n].receivedAt = unread[n]
    /\ deferred = 0

\* C7: each fault is returned by at most one HookErr call, and the faults
\* that triggered the re-validations of a cycle are distinct.
C7_DeliveredOnce ==
    /\ \A f \in 1..MaxFaults : Len(delivered[f]) <= 1
    /\ \A i, j \in DOMAIN accf : i # j => accf[i].receivedAt # accf[j].receivedAt

\* Two faults, each returned once, in different cycles.
C7_Witness ==
    /\ Len(delivered[1]) = 1 /\ Len(delivered[2]) = 1
    /\ delivered[1] # delivered[2]

\* C8: on lists of distinct names Diff returns as add the sources of cur
\* absent from old and as remove the sources of old absent from cur, each once,
\* whatever the order of the lists; on two lists of the same names both are empty.
C8_DiffIsSetDifference ==
    (dpc = "done" /\ NoDup(dOld) /\ NoDup(dCur)) =>
        /\ RangeOf(dOut.add) = RangeOf(dCur) \ RangeOf(dOld)
        /\ RangeOf(dOut.remove) = RangeOf(dOld) \ RangeOf(dCur)
        /\ NoDup(dOut.add) /\ NoDup(dOut.remove)
        /\ RangeOf(dOld) = RangeOf(dCur) => dOut.add = <<>> /\ dOut.remove = <<>>

\* Diff returned a source to add and one to remove, a third being in both lists.
C8_Witness ==
    /\ dpc = "done" /\ NoDup(dOld) /\ NoDup(dCur)
    /\ dOut.add # <<>> /\ dOut.remove # <<>>
    /\ RangeOf(dOld) \cap RangeOf(dCur) # {}

C10_NoPollAfterCancel ==
    [][(ctxDone /\ deferred >= 1) => ~(pc = "loop" /\ pc' = "provide")]_vars

\* C11: once the outer context is canceled, Run eventually returns.
C11_CancelLeadsToReturn == ctxDone ~> pc = "returned"

\* Run has returned from a select whose interval had not elapsed.
C11_Witness == pc = "returned" /\ ~timerFired /\ runRet = "context canceled"

\* The control task is inside Poll, or Poll has just returned.
InCycle == pc \notin {"loop", "select", "returned"}

C14_NoStaleFault == pc = "scan_hook" => old[idx] \notin stale

\* C15: Poll deletes a source only if its name is not in the Provide result,
\* or if a fault of its name was consumed in the cycle and the Check that
\* followed failed; it checks only candidates and sources whose fault it
\* consumed; an active source in the Provide result with no fault consumed
\* is still active when the cycle ends.
C15_DeleteOnlyForCause ==
    /\ (InCycle /\ lastCall.op = "Del") =>
          \/ provided /\ lastCall.src \notin RangeOf(cur) /\ lastCall.src \in old0
          \/ /\ prevCall = Call("Check", lastCall.src, High, FALSE)
             /\ \E i \in DOMAIN accf :
                   accf[i].ref = lastCall.src
                   /\ deferred \in RangeOf(delivered[accf[i].receivedAt])
    /\ (InCycle /\ lastCall.op = "Check") =>
          \/ lastCall.src \in RangeOf(cur) \ old0
          \/ /\ pc \in {"recheck", "recheck_del", "afterpoll"}
             /\ \E i \in DOMAIN accf :
                   accf[i].ref = lastCall.src
                   /\ deferred \in RangeOf(delivered[accf[i].receivedAt])
    /\ CycleDone =>
          \A n \in old0 \cap RangeOf(cur) :
             (\A i \in DOMAIN accf : accf[i].ref # n) => n \in store

\* Two sources were active and provided again; a fault of one was consumed and
\* its Check failed, so it was deleted; the other was left alone.
C15_Witness ==
    /\ CycleDone /\ Cardinality(old0) = 2 /\ old0 \subseteq RangeOf(cur)
    /\ Len(rechecked) = 1 /\ ~rechecked[1].ok
    /\ store = old0 \ {rechecked[1].src}
    /\ lastCall.op = "Del"

\* C16: the fault Hooker.Add retains for a name carries the network, the
\* address and the error HandleDialErr was called with.
C16_FaultCarriesArguments ==
    [][\A t \in Tasks :
          AddStep(t) =>
             /\ hooked'[targs[t].ref].network = targs[t].network
             /\ hooked'[targs[t].ref].address = targs[t].address
             /\ hooked'[targs[t].ref].err = targs[t].err]_vars

\* C17: when a cycle starts, every timeout context Run created in earlier
\* cycles has been released: no deferred cancel() is waiting.
C17_ContextsReleased == pc = "loop" => deferred = 0

\* C18: the registry lock is held by the control task only inside HookErr,
\* never across Provide, Check, Put, Del or GetActive, and by a traffic task
\* only inside Add; whenever a task or the control task waits for the lock,
\* the lock is free or its holder's unlocking step can be taken; every
\* HandleDialErr call that has started completes.
C18_FaultTasksNeverWait ==
    /\ [](mu = -1 => pc \in {"remove_hook", "scan_hook"})
    /\ [](pc \in {"remove_hook", "scan_hook"} => mu = -1)
    /\ [](\A t \in Tasks : mu = t <=> tpc[t] = "locked")
    /\ []((\/ \E t \in Tasks : tpc[t] = "add"
           \/ pc = "remove_lock"
           \/ pc = "scan" /\ idx <= Len(old))
          => \/ mu = 0
             \/ mu = -1 /\ ENABLED (PollRemoveHook \/ PollScanHook)
             \/ mu \in Tasks /\ ENABLED AddStore(mu))
    /\ \A t \in Tasks : (tpc[t] # "idle") ~> (tpc[t] = "idle")

\* A traffic task waits in Add for the lock while Poll, in its scan of the
\* active sources, holds it inside HookErr.
C18_Witness ==
    /\ mu = -1 /\ pc = "scan_hook" /\ store # {}
    /\ \E t \in Tasks : tpc[t] = "add" /\ terr[t].ref = old[idx]

\* C19: Poll never puts a source whose name is already in the active set,
\* from before the cycle or from an earlier Put of the same cycle.
C19_NoDuplicatePut == pc = "put" => add[idx] \notin store

\* C13: a Block, Reserved or Avoid request with an empty source_id, and a
\* Reserved or Avoid request with an empty target, gets status 400 without a
\* call of AppendPolicy, the policy set staying as it was; a Sticky request
\* reaches AppendPolicy whatever its source_id and target.
C13_HandlersValidate ==
    [][/\ (/\ pReq'.decoded
           /\ \/ pReq'.kind \in {"block", "reserved", "avoid"} /\ pReq'.source_id = ""
              \/ pReq'.kind \in {"reserved", "avoid"} /\ pReq'.target = "")
          => /\ pStatus' = StatusBadRequest
             /\ pAppend' = NoPolicy
             /\ policies' = policies
       /\ (pReq'.decoded /\ pReq'.kind = "sticky")
          => /\ pAppend' = NewStickyPolicy(pReq'.issuer)
             /\ pAppend' \in policies' => pStatus' = StatusCreated]_vars

\* A Sticky request with source_id and target empty was accepted and its
\* policy stored; then a Reserved request with a source_id and an empty target
\* was answered 400 without a call of AppendPolicy.
C13_Witness ==
    /\ pReq.decoded /\ pReq.kind = "reserved" /\ pReq.source_id # "" /\ pReq.target = ""
    /\ pStatus = StatusBadRequest /\ pAppend = NoPolicy
    /\ \E i \in Issuers : policies = {NewStickyPolicy(i)}

\* C20: RedirectAll runs add 0/1 first, add 128.0/1 only after it succeeded
\* and the delete of 0/1 only after the second add failed; it returns nil
\* exactly when both adds succeeded, the error of the first add without
\* another command, or the error of the second add after the rollback; after
\* an error return with no failed rollback, no route it added remains.
C20_RedirectAllOrNothing ==
    LET add1 == RouteAdd(net1, gw)
        add2 == RouteAdd(net2, gw)
        del1 == RouteDel(net1, gw)
        argv == [i \in DOMAIN cmds |-> cmds[i].argv]
    IN  /\ argv \in {<<>>, <<add1>>, <<add1, add2>>, <<add1, add2, del1>>}
        /\ Len(cmds) >= 2 => cmds[1].ok
        /\ Len(cmds) = 3 => ~cmds[2].ok
        /\ rret.done =>
              /\ rret = ReturnNil <=> (Len(cmds) = 2 /\ cmds[1].ok /\ cmds[2].ok)
              /\ rret = ReturnNil => routes = {net1, net2}
              /\ rret = ReturnErr(add1) <=> (Len(cmds) = 1 /\ ~cmds[1].ok)
              /\ rret = ReturnErr(add2) <=> Len(cmds) = 3
              /\ rret \in {ReturnNil, ReturnErr(add1), ReturnErr(add2)}
              /\ (rret # ReturnNil /\ \A i \in DOMAIN cmds : cmds[i].argv = del1 => cmds[i].ok)
                    => routes = {}
              /\ (rret # ReturnNil /\ routes # {}) => routes = {net1}

\* The second add failed, the rollback succeeded and RedirectAll returned the
\* error of the second add, leaving no route.
C20_Witness ==
    /\ rret = ReturnErr(RouteAdd(net2, gw)) /\ Len(cmds) = 3
    /\ cmds[1].ok /\ ~cmds[2].ok /\ cmds[3] = [argv |-> RouteDel(net1, gw), ok |-> TRUE]
    /\ routes = {} /\ mpc = "panic"

====
